---------------------------- MODULE Spec2Model ----------------------------
(***************************************************************************)
(* A model of the tiny-world simulation core: the seeded generator and the *)
(* entity and world factories of src/src/world/create.ts, and the two      *)
(* update loops of src/src/world/update.ts (the reproductive variant,      *)
(* lines 1-189, and the static-population variant, lines 191-352).         *)
(*                                                                         *)
(* JavaScript numbers are modelled in fixed point; every quantity keeps    *)
(* one unit throughout:                                                    *)
(*   positions, velocities, distances   0.01 world units                   *)
(*   stateTimer                         0.01 ticks (one tick is 100)       *)
(*   energy                             0.001 (100 is 100000)              *)
(*   plant size, maxSize, growthRate    0.0001                             *)
(*   dayPhase                           0.00001 (1 is 100000)              *)
(*   a Math.random() result             0.0001 (0 .. 9999)                 *)
(*   a seededRandom() result            1/65536 (0 .. 65536)               *)
(*   sines, cosines, unit vectors       0.001                              *)
(*   multiplicative size factors        0.001                              *)
(***************************************************************************)
EXTENDS Integers, Sequences, FiniteSets, TLC

(***************************************************************************)
(* Arithmetic helpers                                                      *)
(***************************************************************************)

\* Division truncating toward zero (fixed-point quotient of a signed value).
Div(a, b) == IF a >= 0 THEN a \div b ELSE -((-a) \div b)

Min(a, b) == IF a <= b THEN a ELSE b

Max(a, b) == IF a >= b THEN a ELSE b

Pow2(k) == CASE k = 0 -> 1 [] k = 1 -> 2 [] k = 2 -> 4 [] k = 3 -> 8
             [] k = 4 -> 16 [] k = 5 -> 32 [] k = 6 -> 64 [] k = 7 -> 128
             [] k = 8 -> 256 [] k = 9 -> 512 [] OTHER -> 1024

\* Number of binary digits of n >= 0.
RECURSIVE BitLen(_)
BitLen(n) == IF n = 0 THEN 0 ELSE 1 + BitLen(n \div 2)

\* Math.sqrt on a non-negative fixed-point square: the integer square root.
RECURSIVE SqrtSearch(_, _, _)
SqrtSearch(n, lo, hi) ==
  IF lo >= hi THEN lo
  ELSE LET mid == (lo + hi + 1) \div 2
       IN IF mid * mid <= n THEN SqrtSearch(n, mid, hi)
          ELSE SqrtSearch(n, lo, mid - 1)

Sqrt(n) == SqrtSearch(n, 0, 46340)

(***************************************************************************)
(* The seeded generator (create.ts).  seed * 1103515245 + 12345 is computed *)
(* in IEEE doubles: a product of more than 53 bits is rounded to 53 bits   *)
(* (ties to even), and so is the sum; "& 0x7fffffff" keeps the low 31 bits.*)
(* A number below 2^62 is held as <<high, low>> = <<n div 2^31, n mod 2^31>>.*)
(***************************************************************************)

INITIAL_SEED == 12345

SEED_MASK == 2147483647

\* seed * 1103515245 as <<high, low>>, by 16-bit limbs (0x41C6, 0x4E6D).
LcgProduct(s) ==
  LET s0 == s % 65536
      s1 == s \div 65536
      t0 == s0 * 20077
      t1 == s0 * 16838 + s1 * 20077 + t0 \div 65536
      t2 == s1 * 16838 + t1 \div 65536
      l0 == t0 % 65536
      l1 == t1 % 65536
      l2 == t2 % 65536
      l3 == t2 \div 65536
  IN <<l3 * 131072 + l2 * 2 + l1 \div 32768, (l1 % 32768) * 65536 + l0>>

\* <<high, low>> rounded to a double: 53 significant bits, ties to even.
RoundDouble(n) ==
  LET k == Max(0, BitLen(n[1]) - 22)
      q == n[2] \div Pow2(k)
      r == n[2] % Pow2(k)
      half == Pow2(k) \div 2
      up == IF k > 0 /\ (r > half \/ (r = half /\ q % 2 = 1)) THEN 1 ELSE 0
      top == Pow2(31 - k - 21) * 2097152
  IN IF k = 0 THEN n
     ELSE IF q + up = top THEN <<n[1] + 1, 0>>
     ELSE <<n[1], (q + up) * Pow2(k)>>

\* <<high, low>> + 12345, exactly.
AddIncrement(n) ==
  IF n[2] >= 2147471303 THEN <<n[1] + 1, n[2] - 2147471303>>
  ELSE <<n[1], n[2] + 12345>>

\* A step that sets every bit of the mask (| for &; compared against
\* NextSeed).
NextSeedAllOnes(s) == SEED_MASK

\* seed = (seed * 1103515245 + 12345) & 0x7fffffff
NextSeed(s) == RoundDouble(AddIncrement(RoundDouble(LcgProduct(s))))[2]

\* return seed / 0x7fffffff, as a fraction of 65536 (1 exactly when the
\* seed equals 0x7fffffff).
SeedFraction(s) == IF s = SEED_MASK THEN 65536 ELSE s \div 32768


\* A fraction f (of 65536) of range, truncated toward zero; range may be
\* negative (randomInRange(30, width - 30) in a narrow world).
ScaleFraction(f, range) ==
  IF range >= 0
  THEN ((f \div 256) * range + ((f % 256) * range) \div 256) \div 256
  ELSE -(((f \div 256) * (-range) + ((f % 256) * (-range)) \div 256) \div 256)

\* randomInRange(min, max) of create.ts, evaluated on the seed that the
\* call's seededRandom() has just produced: seededRandom() * (max - min) + min.
seededRange(s, min, max) == min + ScaleFraction(SeedFraction(s), max - min)

\* colors[Math.floor(seededRandom() * colors.length)] as a palette index;
\* index = length (the result for seededRandom() = 1) is JavaScript's undefined.
PaletteIndex(s, length) == (SeedFraction(s) * length) \div 65536

(***************************************************************************)
(* Entity factories (create.ts)                                            *)
(***************************************************************************)

creatureColors ==
  [bug |-> 3, snail |-> 3, butterfly |-> 4, caterpillar |-> 5, ant |-> 4,
   dragonfly |-> 6, bee |-> 4]

plantColors ==
  [flower |-> 5, grass |-> 4, mushroom |-> 4, blade |-> 5, daisy |-> 3,
   tulip |-> 5, wildflower |-> 5, poppy |-> 4, moss |-> 6]

sizes ==
  [bug |-> 40000, snail |-> 60000, butterfly |-> 50000, caterpillar |-> 50000,
   ant |-> 21000, dragonfly |-> 60000, bee |-> 30000]

maxSizes ==
  [flower |-> 120000, grass |-> 80000, mushroom |-> 100000, blade |-> 60000,
   daisy |-> 100000, tulip |-> 140000, wildflower |-> 80000, poppy |-> 80000,
   moss |-> 80000]

\* The next n results of the generator after seed s, in order.
RECURSIVE draws(_, _)
drawsFrom(s1, n) == <<s1>> \o draws(s1, n - 1)

draws(s, n) == IF n = 0 THEN <<>> ELSE drawsFrom(NextSeed(s), n)

\* The object literal of createCreature on its five draws d (pos.x, pos.y,
\* size, color, stateTimer).
creatureOf(type, worldWidth, worldHeight, d, id) ==
  [entity |->
     [id |-> id,
      pos |-> [x |-> seededRange(d[1], 2000, (worldWidth - 20) * 100),
               y |-> seededRange(d[2], 2000, (worldHeight - 20) * 100)],
      vel |-> [x |-> 0, y |-> 0],
      size |-> sizes[type] + seededRange(d[3], -10000, 10000),
      color |-> PaletteIndex(d[4], creatureColors[type]),
      type |-> type,
      state |-> "wander",
      stateTimer |-> seededRange(d[5], 6000, 18000),
      energy |-> 100000],
   seed |-> d[5]]

\* createCreature(type, worldWidth, worldHeight) called when the seed is s:
\* the creature and the seed left behind.  id is the call's Math.random().
createCreature(type, worldWidth, worldHeight, s, id) ==
  creatureOf(type, worldWidth, worldHeight, draws(s, 5), id)

\* A plant that starts as a sprout below the removal size (compared against
\* startSize).
startSizeSprout(startSmall, maxSize, s) == seededRange(s, 1000, 4000)

\* size: startSmall ? randomInRange(1, 3) : maxSize * randomInRange(0.8, 1.0)
startSize(startSmall, maxSize, s) ==
  IF startSmall THEN seededRange(s, 10000, 30000)
  ELSE (maxSize * seededRange(s, 8000, 10000)) \div 10000

\* The object literal of createPlant on its draws d: maxSize first, pos.x and
\* pos.y when no pos is given, then size, growthRate and color.
plantOf(type, worldWidth, worldHeight, pos, startSmall, d, id) ==
  [entity |->
     [id |-> id,
      pos |-> IF pos = <<>>
              THEN [x |-> seededRange(d[2], 3000, (worldWidth - 30) * 100),
                    y |-> seededRange(d[3], 3000, (worldHeight - 30) * 100)]
              ELSE pos[1],
      size |-> startSize(startSmall,
                         maxSizes[type] + seededRange(d[1], -20000, 40000),
                         d[Len(d) - 2]),
      maxSize |-> maxSizes[type] + seededRange(d[1], -20000, 40000),
      growthRate |-> seededRange(d[Len(d) - 1], 20, 80),
      color |-> PaletteIndex(d[Len(d)], plantColors[type]),
      type |-> type,
      age |-> 0],
   seed |-> d[Len(d)]]

\* createPlant(type, worldWidth, worldHeight, pos?, startSmall?) called when
\* the seed is s: the plant and the seed left behind.  pos is <<>> when the
\* argument is omitted and <<p>> when it is given.
createPlant(type, worldWidth, worldHeight, pos, startSmall, s, id) ==
  plantOf(type, worldWidth, worldHeight, pos, startSmall,
          draws(s, IF pos = <<>> THEN 6 ELSE 4), id)

(***************************************************************************)
(* The world factory (create.ts, createWorld).  The loop counts of the     *)
(* code are kept in POPULATION; a model world is built with each loop cut  *)
(* to the count a population record gives (never more than the code's).    *)
(* The builder state b is [seed, creatures, plants].                       *)
(***************************************************************************)

POPULATION ==
  [bug |-> 10, snail |-> 7, butterfly |-> 12, dragonfly |-> 4, bee |-> 8,
   caterpillar |-> 10, ant |-> 80,
   flower |-> 40, daisy |-> 25, tulip |-> 20, wildflower |-> 30,
   smallWild |-> 20, poppy |-> 10, grass |-> 350, mushroom |-> 6,
   mushroomPatches |-> 6, blade |-> 220, moss |-> 25, mossPatches |-> 10,
   widePatches |-> 7, xlPatches |-> 2, largeMoss |-> 5]

Count(pop, group) == Min(POPULATION[group], pop[group])

\* The builder holds a seed of the generator (evaluating this at every step
\* also keeps the builder a value rather than a chain of pending steps).
Built(b) == b.seed \in 0..SEED_MASK

withCreature(b, c) ==
  [b EXCEPT !.seed = c.seed, !.creatures = Append(@, c.entity)]

\* for (i < n) creatures.push(createCreature(type, width, height))
RECURSIVE pushCreatures(_, _, _, _, _, _)
pushCreatures(b, type, n, width, height, id) ==
  IF n = 0 \/ ~Built(b) THEN b
  ELSE pushCreatures(withCreature(b, createCreature(type, width, height, b.seed, id)),
                     type, n - 1, width, height, id)

\* p.size *= sizeMul; p.maxSize *= maxMul; plants.push(p), the seed moving
\* on to s (multipliers in thousandths).
withPlant(b, p, sizeMul, maxMul, s) ==
  [b EXCEPT !.seed = s,
            !.plants = Append(@, [p EXCEPT !.size = (@ * sizeMul) \div 1000,
                                           !.maxSize = (@ * maxMul) \div 1000])]

plantPushed(b, made, sizeMul, maxMul) ==
  withPlant(b, made.entity, sizeMul, maxMul, made.seed)

\* for (i < n) { p = createPlant(type, width, height); p.size *= sizeMul;
\*               p.maxSize *= maxMul; plants.push(p) }
\* (1000 where the loop does not scale).
RECURSIVE pushPlants(_, _, _, _, _, _, _, _)
pushPlants(b, type, n, width, height, sizeMul, maxMul, id) ==
  IF n = 0 \/ ~Built(b) THEN b
  ELSE IF n = 1
  THEN plantPushed(b, createPlant(type, width, height, <<>>, FALSE, b.seed, id),
                   sizeMul, maxMul)
  ELSE \* the first n \div 2 iterations, then the rest
       pushPlants(pushPlants(b, type, n \div 2, width, height, sizeMul, maxMul, id),
                  type, n - n \div 2, width, height, sizeMul, maxMul, id)

\* Math.max(lo, Math.min(hi, v))
Clamp(lo, hi, v) == Max(lo, Min(hi, v))

\* The parameters of a patch loop: the inset of the patch centre, the member
\* count base + floor(seededRandom() * spread), the offset of a member, the
\* margin its position is clamped to, and the factor
\* factorBase + seededRandom() * factorSpread its size is multiplied by
\* (factorSpread = 0: the loop draws no factor).
mushroomPatch ==
  [type |-> "mushroom", inset |-> 60, base |-> 2, spread |-> 2,
   offset |-> 2500, margin |-> 30, factorBase |-> 1000, factorSpread |-> 0]

mossPatch ==
  [type |-> "moss", inset |-> 50, base |-> 4, spread |-> 5,
   offset |-> 2000, margin |-> 20, factorBase |-> 1000, factorSpread |-> 0]

widePatch ==
  [type |-> "moss", inset |-> 80, base |-> 10, spread |-> 8,
   offset |-> 5000, margin |-> 20, factorBase |-> 1300, factorSpread |-> 500]

xlPatch ==
  [type |-> "moss", inset |-> 100, base |-> 25, spread |-> 15,
   offset |-> 9000, margin |-> 20, factorBase |-> 1500, factorSpread |-> 800]

\* The position of a patch member: the centre plus the two offsets drawn (d),
\* clamped to the margin.
memberPos(k, cx, cy, d, width, height) ==
  [x |-> Clamp(k.margin * 100, (width - k.margin) * 100,
               cx + seededRange(d[1], -k.offset, k.offset)),
   y |-> Clamp(k.margin * 100, (height - k.margin) * 100,
               cy + seededRange(d[2], -k.offset, k.offset))]

\* member.size *= factorBase + seededRandom() * factorSpread, on the draw f
\* that follows createPlant (none is drawn when factorSpread = 0).
memberScaled(b, k, made, f) ==
  IF k.factorSpread = 0 THEN withPlant(b, made.entity, 1000, 1000, made.seed)
  ELSE withPlant(b, made.entity,
                 k.factorBase + ScaleFraction(SeedFraction(f), k.factorSpread),
                 1000, f)

memberMade(b, k, made) == memberScaled(b, k, made, NextSeed(made.seed))

memberAt(b, k, cx, cy, d, width, height, id) ==
  memberMade(b, k, createPlant(k.type, width, height,
                               <<memberPos(k, cx, cy, d, width, height)>>,
                               FALSE, d[2], id))

\* The members of one patch around <<cx, cy>>.
RECURSIVE pushMembers(_, _, _, _, _, _, _, _)
pushMembers(b, k, m, cx, cy, width, height, id) ==
  IF m = 0 \/ ~Built(b) THEN b
  ELSE pushMembers(memberAt(b, k, cx, cy, draws(b.seed, 2), width, height, id),
                   k, m - 1, cx, cy, width, height, id)

\* One patch on its three draws d: the centre and the member count, which
\* perPatch cuts.
patchAt(b, k, d, perPatch, width, height, id) ==
  pushMembers([b EXCEPT !.seed = d[3]], k,
              Min(k.base + (SeedFraction(d[3]) * k.spread) \div 65536, perPatch),
              seededRange(d[1], k.inset * 100, (width - k.inset) * 100),
              seededRange(d[2], k.inset * 100, (height - k.inset) * 100),
              width, height, id)

\* for (patch < n) { centre; count; members }
RECURSIVE pushPatches(_, _, _, _, _, _, _)
pushPatches(b, k, n, perPatch, width, height, id) ==
  IF n = 0 \/ ~Built(b) THEN b
  ELSE pushPatches(patchAt(b, k, draws(b.seed, 3), perPatch, width, height, id),
                   k, n - 1, perPatch, width, height, id)

\* The loops of createWorld, in the order of the code.
worldLoops ==
  <<[op |-> "creatures", group |-> "bug", type |-> "bug"],
    [op |-> "creatures", group |-> "snail", type |-> "snail"],
    [op |-> "creatures", group |-> "butterfly", type |-> "butterfly"],
    [op |-> "creatures", group |-> "dragonfly", type |-> "dragonfly"],
    [op |-> "creatures", group |-> "bee", type |-> "bee"],
    [op |-> "creatures", group |-> "caterpillar", type |-> "caterpillar"],
    [op |-> "creatures", group |-> "ant", type |-> "ant"],
    [op |-> "plants", group |-> "flower", type |-> "flower", sizeMul |-> 1000, maxMul |-> 1000],
    [op |-> "plants", group |-> "daisy", type |-> "daisy", sizeMul |-> 1000, maxMul |-> 1000],
    [op |-> "plants", group |-> "tulip", type |-> "tulip", sizeMul |-> 1000, maxMul |-> 1000],
    [op |-> "plants", group |-> "wildflower", type |-> "wildflower", sizeMul |-> 1000, maxMul |-> 1000],
    [op |-> "plants", group |-> "smallWild", type |-> "wildflower", sizeMul |-> 500, maxMul |-> 500],
    [op |-> "plants", group |-> "poppy", type |-> "poppy", sizeMul |-> 1000, maxMul |-> 1000],
    [op |-> "plants", group |-> "grass", type |-> "grass", sizeMul |-> 1000, maxMul |-> 1000],
    [op |-> "plants", group |-> "mushroom", type |-> "mushroom", sizeMul |-> 1000, maxMul |-> 1000],
    [op |-> "patches", group |-> "mushroomPatches", patch |-> mushroomPatch],
    [op |-> "plants", group |-> "blade", type |-> "blade", sizeMul |-> 1000, maxMul |-> 1000],
    [op |-> "plants", group |-> "moss", type |-> "moss", sizeMul |-> 1000, maxMul |-> 1000],
    [op |-> "patches", group |-> "mossPatches", patch |-> mossPatch],
    [op |-> "patches", group |-> "widePatches", patch |-> widePatch],
    [op |-> "patches", group |-> "xlPatches", patch |-> xlPatch],
    [op |-> "plants", group |-> "largeMoss", type |-> "moss", sizeMul |-> 2000, maxMul |-> 2000]>>

\* One loop of createWorld, cut to pop.
runLoop(b, loop, width, height, pop, id) ==
  IF loop.op = "creatures"
  THEN pushCreatures(b, loop.type, Count(pop, loop.group), width, height, id)
  ELSE IF loop.op = "plants"
  THEN pushPlants(b, loop.type, Count(pop, loop.group), width, height,
                  loop.sizeMul, loop.maxMul, id)
  ELSE pushPatches(b, loop.patch, Count(pop, loop.group), pop.perPatch,
                   width, height, id)

RECURSIVE runLoops(_, _, _, _, _, _)
runLoops(b, i, width, height, pop, id) ==
  IF i > Len(worldLoops) \/ ~Built(b) THEN b
  ELSE runLoops(runLoop(b, worldLoops[i], width, height, pop, id), i + 1,
                width, height, pop, id)

\* A reset that leaves the seed where it is (compared against resetSeed).
keepSeed(s) == s

\* resetSeed(): the seed after the call, s being the seed before it.
resetSeed(s) == INITIAL_SEED

\* A world that opens at midnight (compared against worldOf).
worldAtMidnight(b, width, height) ==
  [width |-> width, height |-> height,
   creatures |-> b.creatures, plants |-> b.plants,
   particles |-> <<>>, time |-> 0, weather |-> "clear", dayPhase |-> 0,
   seed |-> b.seed]

\* return { width, height, creatures, plants, particles: [], time: 0,
\*          weather: 'clear', dayPhase: 0.35 }, with the seed left behind.
worldOf(b, width, height) ==
  [width |-> width, height |-> height,
   creatures |-> b.creatures, plants |-> b.plants,
   particles |-> <<>>, time |-> 0, weather |-> "clear", dayPhase |-> 35000,
   seed |-> b.seed]

\* createWorld(width, height) with the loops cut to pop, called when the
\* module's seed is s.
createWorld(width, height, pop, id, s) ==
  worldOf(runLoops([seed |-> resetSeed(s), creatures |-> <<>>, plants |-> <<>>],
                   1, width, height, pop, id),
          width, height)

(***************************************************************************)
(* Helpers of update.ts.  Math.random() is not seeded: every call site     *)
(* draws from a set of outcomes that the draw record D names               *)
(* (D.state, D.dwell, D.angle, D.spawn, D.offset, D.id, D.emit, D.px,      *)
(* D.pv, D.weather, D.pick).                                               *)
(***************************************************************************)

\* randomInRange(min, max) of update.ts on the Math.random() result r.
\* A dwell of no length (compared against randomInRange).
randomNothing(r, min, max) == 0

\* A range stretched to twice its width (compared against randomInRange).
randomInRangeWide(r, min, max) == min + Div(r * (max - min), 5000)

randomInRange(r, min, max) == min + Div(r * (max - min), 10000)

\* The sine of t ten-thousandths of a turn, in thousandths (Bhaskara's
\* rational approximation of Math.sin on each half turn).
SinTurn(t) ==
  LET h == t % 5000
      q == (h * (5000 - h)) \div 1000
      v == (16000 * q) \div (125000 - 4 * q)
  IN IF t % 10000 < 5000 THEN v ELSE -v

CosTurn(t) == SinTurn((t + 2500) % 10000)

\* Math.sin / Math.cos of an angle in ten-thousandths of a radian.
Sin(rad) == SinTurn(((rad % 62832) * 10000) \div 62832)

Cos(rad) == CosTurn(((rad % 62832) * 10000) \div 62832)

\* distance(a, b)
distance(a, b) == Sqrt((a.x - b.x) * (a.x - b.x) + (a.y - b.y) * (a.y - b.y))

\* normalize(v): the unit vector, in thousandths.
normalize(vx, vy) ==
  LET len == Sqrt(vx * vx + vy * vy)
  IN IF len = 0 THEN [x |-> 0, y |-> 0]
     ELSE [x |-> Div(vx * 1000, len), y |-> Div(vy * 1000, len)]

\* findNearbyPlant(plants, pos, maxDist, minSize): the index of the first
\* plant that qualifies, 0 for null.
findNearbyPlant(plants, pos, maxDist, minSize) ==
  LET hits == {i \in 1..Len(plants) :
                 plants[i].size > minSize /\ distance(pos, plants[i].pos) < maxDist}
  IN IF hits = {} THEN 0 ELSE CHOOSE i \in hits : \A j \in hits : i <= j

(***************************************************************************)
(* updateCreature (update.ts 17-101 and 226-306; the variants differ in    *)
(* the speed of a bug).  Each step is the set of its possible results.     *)
(***************************************************************************)

PADDING == 2000

ENERGY_MAX == 100000

ENERGY_GAIN == 100

ENERGY_DRAIN == 5

BITE == 100

speeds(variant) ==
  [bug |-> IF variant = "reproductive" THEN 80 ELSE 40,
   snail |-> 20, butterfly |-> 120, caterpillar |-> 30, ant |-> 100]

\* speeds[creature.type] ?? 0.3
speedOf(variant, type) ==
  IF type \in DOMAIN speeds(variant) THEN speeds(variant)[type] ELSE 30

\* A re-roll that names a state outside the three (compared against
\* pickState).
pickStateOrFlee(rand, found) ==
  IF rand < 6000 THEN "wander"
  ELSE IF rand < 8500 THEN "rest"
  ELSE IF found THEN "eat" ELSE "flee"

\* A re-roll that lets the creature eat whether or not the search found a
\* plant (compared against pickState).
pickStateEatAnyway(rand, found) ==
  IF rand < 6000 THEN "wander"
  ELSE IF rand < 8500 THEN "rest"
  ELSE "eat"

\* The state a re-roll assigns on rand = Math.random(): wander below 0.6,
\* rest below 0.85, otherwise eat when a plant was found and wander when not.
pickState(rand, found) ==
  IF rand < 6000 THEN "wander"
  ELSE IF rand < 8500 THEN "rest"
  ELSE IF found THEN "eat" ELSE "wander"

\* A trigger that fires one tick early (compared against expired).
expiredEarly(timer) == timer <= 100

\* if (creature.stateTimer <= 0), on the decremented timer.
expired(timer) == timer <= 0

\* The state machine: creature.stateTimer--, and a re-roll when the timer
\* has run out (angle = Math.random() * Math.PI * 2 is a turns of the circle).
stateMachine(D, variant, creature, plants) ==
  LET speed == speedOf(variant, creature.type)
      c == [creature EXCEPT !.stateTimer = @ - 100]
      target == findNearbyPlant(plants, c.pos, 5000, 30000)
      dir == normalize(plants[target].pos.x - c.pos.x,
                       plants[target].pos.y - c.pos.y)
      reroll(rand) ==
        IF rand < 6000
        THEN {[c EXCEPT !.state = pickState(rand, target # 0),
                        !.stateTimer = randomInRange(r, 12000, 30000),
                        !.vel = [x |-> Div(CosTurn(a) * speed, 1000),
                                 y |-> Div(SinTurn(a) * speed, 1000)]]
               : r \in D.dwell, a \in D.angle}
        ELSE IF rand < 8500
        THEN {[c EXCEPT !.state = pickState(rand, target # 0),
                        !.stateTimer = randomInRange(r, 6000, 18000),
                        !.vel = [x |-> 0, y |-> 0]] : r \in D.dwell}
        ELSE IF target # 0
        THEN {[c EXCEPT !.state = pickState(rand, target # 0),
                        !.stateTimer = randomInRange(r, 6000, 12000),
                        !.vel = [x |-> Div(dir.x * speed, 2000),
                                 y |-> Div(dir.y * speed, 2000)]] : r \in D.dwell}
        ELSE {[c EXCEPT !.state = pickState(rand, target # 0),
                        !.stateTimer = randomInRange(r, 6000, 12000)] : r \in D.dwell}
  IN IF expired(c.stateTimer) THEN UNION {reroll(rand) : rand \in D.state} ELSE {c}

\* Butterflies have floaty movement.
flutter(c, time) ==
  IF c.type = "butterfly"
  THEN [c EXCEPT !.vel = [x |-> c.vel.x + Div(Sin(time * 500 + c.pos.y) * 2, 1000),
                          y |-> c.vel.y + Div(Cos(time * 300 + c.pos.x) * 2, 1000)]]
  ELSE c

\* Apply velocity.
move(c) == [c EXCEPT !.pos = [x |-> c.pos.x + c.vel.x, y |-> c.pos.y + c.vel.y]]

\* A bounce off the far edge that inverts the velocity and leaves the
\* position where it is (compared against bounceHigh).
bounceHighLoose(pos, vel, limit) ==
  IF pos > limit - PADDING THEN <<pos, -vel>> ELSE <<pos, vel>>

\* The four boundary tests, in the order of the code.
bounceLow(pos, vel) ==
  IF pos < PADDING THEN <<PADDING, -vel>> ELSE <<pos, vel>>

bounceHigh(pos, vel, limit) ==
  IF pos > limit - PADDING THEN <<limit - PADDING, -vel>> ELSE <<pos, vel>>

bounce(c, width, height) ==
  LET x == bounceHigh(bounceLow(c.pos.x, c.vel.x)[1],
                      bounceLow(c.pos.x, c.vel.x)[2], width * 100)
      y == bounceHigh(bounceLow(c.pos.y, c.vel.y)[1],
                      bounceLow(c.pos.y, c.vel.y)[2], height * 100)
  IN [c EXCEPT !.pos = [x |-> x[1], y |-> y[1]],
               !.vel = [x |-> x[2], y |-> y[2]]]

\* A bite taken in whatever state the creature is (compared against bitten).
bittenInAnyState(c, plants) == findNearbyPlant(plants, c.pos, 1500, 20000)

\* A bite taken from the plant the steering search would find: the first one
\* within 50 with size > 3 (compared against bitten).
bittenWhereSteered(c, plants) ==
  IF c.state = "eat" THEN findNearbyPlant(plants, c.pos, 5000, 30000) ELSE 0

\* Eating behaviour: the index of the plant bitten, 0 for none.
bitten(c, plants) ==
  IF c.state = "eat" THEN findNearbyPlant(plants, c.pos, 1500, 20000) ELSE 0

\* Feeding without the Math.min (compared against feed).
feedUnclamped(energy) == energy + ENERGY_GAIN

\* creature.energy = Math.min(100, creature.energy + 0.1)
feed(energy) == Min(ENERGY_MAX, energy + ENERGY_GAIN)

\* A drain that stops at zero (compared against drain).
drainToZero(energy) == Max(0, energy - ENERGY_DRAIN)

\* Slow energy drain.
drain(energy) == energy - ENERGY_DRAIN

\* updateCreature(creature, world): the possible results, each the creature,
\* the plants and the index of the plant it bit.
updateCreature(D, variant, creature, plants, time, width, height) ==
  {LET c == bounce(move(flutter(m, time)), width, height)
       k == bitten(c, plants)
   IN [creature |-> [c EXCEPT !.energy = drain(IF k # 0 THEN feed(@) ELSE @)],
       plants |-> IF k # 0 THEN [plants EXCEPT ![k].size = @ - BITE] ELSE plants,
       ate |-> k]
   : m \in stateMachine(D, variant, creature, plants)}

(***************************************************************************)
(* updatePlant, updateParticles, updateWeather                             *)
(***************************************************************************)

SPAWN_AGE == 2000

PLANT_CAP == 300

MIN_SIZE == 5000

\* dayBonus = Math.sin(world.dayPhase * Math.PI) * 0.5 + 0.5, in thousandths.
dayBonus(dayPhase) == SinTurn(dayPhase \div 20) \div 2 + 500

\* rainBonus = world.weather === 'rain' ? 1.5 : 1, in tenths.
rainBonus(weather) == IF weather = "rain" THEN 15 ELSE 10

\* A step in which the plant loses what it would have gained (compared
\* against grow).
wither(plant, dayPhase, weather) ==
  [plant EXCEPT
     !.age = @ + 1,
     !.size = IF plant.size < plant.maxSize
              THEN @ - (plant.growthRate * dayBonus(dayPhase) * rainBonus(weather))
                       \div 10000
              ELSE @]

\* A growth step that takes maxSize along when the size is above it
\* (compared against grow).
growStretching(plant, dayPhase, weather) ==
  [plant EXCEPT
     !.age = @ + 1,
     !.maxSize = Max(@, plant.size),
     !.size = IF plant.size < plant.maxSize
              THEN @ + (plant.growthRate * dayBonus(dayPhase) * rainBonus(weather))
                       \div 10000
              ELSE @]

\* plant.age++ and the growth step shared by the two variants.
grow(plant, dayPhase, weather) ==
  [plant EXCEPT
     !.age = @ + 1,
     !.size = IF plant.size < plant.maxSize
              THEN @ + (plant.growthRate * dayBonus(dayPhase) * rainBonus(weather))
                       \div 10000
              ELSE @]

\* updatePlant of the static variant (308-326).
updatePlantStatic(plant, dayPhase, weather) ==
  LET g == grow(plant, dayPhase, weather)
  IN IF g.size < MIN_SIZE THEN [g EXCEPT !.size = MIN_SIZE] ELSE g

\* Array.prototype.splice(idx, 1)
splice(seq, idx) == SubSeq(seq, 1, idx - 1) \o SubSeq(seq, idx + 1, Len(seq))

\* An updatePlant that lets a plant seed at any age (compared against
\* updatePlantReproductive).
updatePlantPrecocious(D, plants, k, s, dayPhase, weather, width, height) ==
  LET g == grow(plants[k], dayPhase, weather)
      grown == [plants EXCEPT ![k] = g]
      fertile == g.size > (g.maxSize * 8) \div 10
      seedling(ox, oy, id) ==
        createPlant(g.type, width, height,
                    <<[x |-> Max(3000, Min((width - 30) * 100,
                                           g.pos.x + randomInRange(ox, -4000, 4000))),
                       y |-> Max(3000, Min((height - 30) * 100,
                                           g.pos.y + randomInRange(oy, -4000, 4000)))]>>,
                    TRUE, s, id)
      spawned ==
        IF ~fertile THEN {[plants |-> grown, seed |-> s]}
        ELSE UNION {
          IF r < 5
          THEN IF Len(grown) < PLANT_CAP
               THEN {[plants |-> Append(grown, seedling(ox, oy, id).entity),
                      seed |-> seedling(ox, oy, id).seed]
                      : ox \in D.offset, oy \in D.offset, id \in D.id}
               ELSE {[plants |-> grown, seed |-> s]}
          ELSE {[plants |-> grown, seed |-> s]} : r \in D.spawn}
  IN {IF g.size < MIN_SIZE
      THEN [plants |-> splice(o.plants, k), seed |-> o.seed]
      ELSE o : o \in spawned}

\* updatePlant of the reproductive variant (103-134) on world.plants[k]: the
\* possible results, each the plants and the seed of the generator.
updatePlantReproductive(D, plants, k, s, dayPhase, weather, width, height) ==
  LET g == grow(plants[k], dayPhase, weather)
      grown == [plants EXCEPT ![k] = g]
      fertile == g.age > SPAWN_AGE /\ g.size > (g.maxSize * 8) \div 10
      seedling(ox, oy, id) ==
        createPlant(g.type, width, height,
                    <<[x |-> Max(3000, Min((width - 30) * 100,
                                           g.pos.x + randomInRange(ox, -4000, 4000))),
                       y |-> Max(3000, Min((height - 30) * 100,
                                           g.pos.y + randomInRange(oy, -4000, 4000)))]>>,
                    TRUE, s, id)
      spawned ==
        IF ~fertile THEN {[plants |-> grown, seed |-> s]}
        ELSE UNION {
          IF r < 5
          THEN IF Len(grown) < PLANT_CAP
               THEN {[plants |-> Append(grown, seedling(ox, oy, id).entity),
                      seed |-> seedling(ox, oy, id).seed]
                      : ox \in D.offset, oy \in D.offset, id \in D.id}
               ELSE {[plants |-> grown, seed |-> s]}
          ELSE {[plants |-> grown, seed |-> s]} : r \in D.spawn}
  IN {IF g.size < MIN_SIZE
      THEN [plants |-> splice(o.plants, k), seed |-> o.seed]
      ELSE o : o \in spawned}

\* p.pos.x += p.vel.x; p.pos.y += p.vel.y; p.life--
drift(p) ==
  [p EXCEPT !.pos = [x |-> p.pos.x + p.vel.x, y |-> p.pos.y + p.vel.y],
            !.life = @ - 1]

\* world.particles.filter(...): move, age, and keep the live ones above the
\* bottom edge.
filterParticles(particles, height) ==
  SelectSeq([n \in 1..Len(particles) |-> drift(particles[n])],
            LAMBDA p : p.life > 0 /\ p.pos.y < height * 100)

rainDrop(rx, width) ==
  [pos |-> [x |-> (rx * width) \div 100, y |-> -500],
   vel |-> [x |-> -50, y |-> 300],
   life |-> 200, maxLife |-> 200, size |-> 20000, color |-> "#a0c4e8"]

\* A mote that starts 5 inside the bottom edge (compared against pollen).
pollenInside(rx, rvx, rvy, width, height) ==
  [pos |-> [x |-> (rx * width) \div 100, y |-> height * 100 - 500],
   vel |-> [x |-> randomInRange(rvx, -20, 20), y |-> randomInRange(rvy, -50, -20)],
   life |-> 300, maxLife |-> 300, size |-> 20000, color |-> "#fff8dc"]

pollen(rx, rvx, rvy, width, height) ==
  [pos |-> [x |-> (rx * width) \div 100, y |-> height * 100 + 500],
   vel |-> [x |-> randomInRange(rvx, -20, 20), y |-> randomInRange(rvy, -50, -20)],
   life |-> 300, maxLife |-> 300, size |-> 20000, color |-> "#fff8dc"]

\* updateParticles(world): the possible particle collections.
updateParticles(D, particles, weather, width, height) ==
  LET kept == filterParticles(particles, height)
  IN IF weather = "rain"
     THEN UNION {IF r < 3000 THEN {Append(kept, rainDrop(rx, width)) : rx \in D.px}
                 ELSE {kept} : r \in D.emit}
     ELSE IF weather = "clear"
     THEN UNION {IF r < 200
                 THEN {Append(kept, pollen(rx, rvx, rvy, width, height))
                        : rx \in D.px, rvx \in D.pv, rvy \in D.pv}
                 ELSE {kept} : r \in D.emit}
     ELSE {kept}

weathers == <<"clear", "clear", "clear", "rain", "windy">>

\* updateWeather(world): the possible weathers.
updateWeather(D, weather) ==
  UNION {IF r < 3 THEN {weathers[(i * Len(weathers)) \div 10000 + 1] : i \in D.pick}
         ELSE {weather} : r \in D.weather}

(***************************************************************************)
(* updateWorld: the loops over the collections                             *)
(***************************************************************************)

\* A loop in which the creatures share one velocity object: what an update
\* writes to its creature's vel shows in every creature after it (compared
\* against forEachCreature).
RECURSIVE forEachCreatureShared(_, _, _, _, _, _, _)
forEachCreatureShared(D, variant, i, a, time, width, height) ==
  IF i > Len(a.creatures) THEN {a}
  ELSE UNION {forEachCreatureShared(D, variant, i + 1,
                 [creatures |-> [j \in 1..Len(a.creatures) |->
                                   IF j = i THEN o.creature
                                   ELSE IF j > i
                                   THEN [a.creatures[j] EXCEPT !.vel = o.creature.vel]
                                   ELSE a.creatures[j]],
                  plants |-> o.plants,
                  ate |-> Append(a.ate, o.ate)],
                 time, width, height)
               : o \in updateCreature(D, variant, a.creatures[i], a.plants,
                                      time, width, height)}

\* The loop over world.creatures from index i on; a is [creatures, plants,
\* ate], ate listing for each creature the index of the plant it bit.
RECURSIVE forEachCreature(_, _, _, _, _, _, _)
forEachCreature(D, variant, i, a, time, width, height) ==
  IF i > Len(a.creatures) THEN {a}
  ELSE UNION {forEachCreature(D, variant, i + 1,
                              [creatures |-> [a.creatures EXCEPT ![i] = o.creature],
                               plants |-> o.plants,
                               ate |-> Append(a.ate, o.ate)],
                              time, width, height)
               : o \in updateCreature(D, variant, a.creatures[i], a.plants,
                                      time, width, height)}

\* A static loop that still lets old, well-grown plants seed and still
\* removes the small ones (compared against forEachPlantStatic).
forEachPlantStaticSeeding(plants, dayPhase, weather) ==
  LET grown == [i \in 1..Len(plants) |-> grow(plants[i], dayPhase, weather)]
      kept == SelectSeq(grown, LAMBDA p : p.size >= MIN_SIZE)
      old == SelectSeq(kept, LAMBDA p : p.age > SPAWN_AGE
                                        /\ p.size > (p.maxSize * 8) \div 10)
  IN IF Len(old) > 0 /\ Len(kept) < PLANT_CAP
     THEN Append(kept, [old[1] EXCEPT !.age = 0, !.size = 20000])
     ELSE kept

\* for (i < len) updatePlant(plants[i], world) of the static variant.
forEachPlantStatic(plants, dayPhase, weather) ==
  [i \in 1..Len(plants) |-> updatePlantStatic(plants[i], dayPhase, weather)]

\* world.plants.forEach(p => updatePlant(p, world)) of the reproductive
\* variant: forEach visits the indices below the length it started with and
\* skips an index the array no longer has; a is [plants, seed], and the
\* indices k .. len are those still to visit.
RECURSIVE forEachPlantReproductive(_, _, _, _, _, _, _, _)
forEachPlantReproductive(D, k, len, a, dayPhase, weather, width, height) ==
  IF k > len THEN {a}
  ELSE IF k = len
  THEN IF k > Len(a.plants) THEN {a}
       ELSE updatePlantReproductive(D, a.plants, k, a.seed, dayPhase, weather,
                                    width, height)
  ELSE \* the indices k .. (k + len) \div 2, then the rest
       UNION {forEachPlantReproductive(D, (k + len) \div 2 + 1, len, o, dayPhase,
                                       weather, width, height)
               : o \in forEachPlantReproductive(D, k, (k + len) \div 2, a, dayPhase,
                                                weather, width, height)}

(***************************************************************************)
(* State                                                                   *)
(***************************************************************************)

VARIABLES
  variant,    \* which update.ts runs: "reproductive" or "static"
  pop,        \* the population the model's createWorld is cut to
  seed,       \* create.ts: let seed
  width,      \* world.width
  height,     \* world.height
  creatures,  \* world.creatures
  plants,     \* world.plants
  particles,  \* world.particles
  time,       \* world.time
  weather,    \* world.weather
  dayPhase,   \* world.dayPhase
  ate,        \* history: for each creature, the plant it bit in the last tick
  updates,    \* history: updateWorld calls since the last createWorld
  creates,    \* history: createWorld calls so far
  strayed,    \* history: the seed has been advanced since the last createWorld returned
  called,     \* history: the seed the last createWorld call found
  golden,     \* history: what the first createWorld call returned
  driver,     \* which App calls updateWorld: "interval" (App.tsx) or "frame" (WorldUpdater)
  isPaused,   \* App: useState(false)
  interval,   \* App.tsx: an interval set by the effect is live
  frame,      \* WorldUpdater: frameRef.current
  rainOverride \* App: useState(null), "null", "true" or "false"

vars == <<variant, pop, seed, width, height, creatures, plants, particles,
          time, weather, dayPhase, ate, updates, creates, strayed, called, golden,
          driver, isPaused, interval, frame, rainOverride>>

\* The fields of the World object.
world == <<width, height, creatures, plants, particles, time, weather, dayPhase>>

\* An interval effect that sets its interval whatever isPaused is (compared
\* against intervalEffect).
intervalAlways(paused) == TRUE

\* The effect of App.tsx 27-41 run with isPaused = paused: an interval is
\* live afterwards exactly when the app is not paused (the cleanup clears the
\* one set before).
intervalEffect(paused) == ~paused

\* WorldUpdater's useFrame callback goes past "if (isPaused) return".
frameRuns(paused) == ~paused

\* frameRef.current % 3 === 0
frameUpdates(f) == f % 3 = 0

\* A driver callback reaches updateWorld(world): the interval's when one is
\* live, WorldUpdater's on every third frame that runs.
driverCalls ==
  IF driver = "interval" THEN interval
  ELSE frameRuns(isPaused) /\ frameUpdates(frame + 1)

\* What the callback that reached updateWorld leaves of the app's state.
driverCalled ==
  /\ frame' = IF driver = "frame" THEN frame + 1 ELSE frame
  /\ UNCHANGED <<driver, isPaused, interval, rainOverride>>

\* The app's state when the world is mounted.
mounted(d) ==
  /\ driver = d
  /\ isPaused = FALSE
  /\ interval = (d = "interval" /\ intervalEffect(FALSE))
  /\ frame = 0
  /\ rainOverride = "null"

\* What two worlds are compared on: everything but the Math.random() ids.
layout(cs, ps) ==
  [creatures |-> [i \in 1..Len(cs) |->
                    [type |-> cs[i].type, pos |-> cs[i].pos, size |-> cs[i].size,
                     color |-> cs[i].color, stateTimer |-> cs[i].stateTimer]],
   plants |-> [i \in 1..Len(ps) |->
                 [type |-> ps[i].type, pos |-> ps[i].pos, size |-> ps[i].size,
                  maxSize |-> ps[i].maxSize, growthRate |-> ps[i].growthRate,
                  color |-> ps[i].color]]]

\* worldRef.current = createWorld(width, height): the world's fields and the
\* module's seed after the call.
install(w) ==
  /\ seed' = w.seed
  /\ width' = w.width
  /\ height' = w.height
  /\ creatures' = w.creatures
  /\ plants' = w.plants
  /\ particles' = w.particles
  /\ time' = w.time
  /\ weather' = w.weather
  /\ dayPhase' = w.dayPhase
  /\ ate' = [i \in 1..Len(w.creatures) |-> 0]
  /\ updates' = 0
  /\ strayed' = FALSE

(***************************************************************************)
(* Operations                                                              *)
(***************************************************************************)

\* createWorld(W, H) called again (the function is exported; App calls it
\* from initWorld).
CreateWorld(D, maxCreates) ==
  /\ creates < maxCreates
  /\ \E id \in D.id :
       \E w \in {createWorld(width, height, pop, id, seed)} : install(w)
  /\ creates' = creates + 1
  /\ called' = seed
  /\ UNCHANGED <<variant, pop, golden, driver, isPaused, interval, frame, rainOverride>>

\* createCreature(type, W, H) called on its own: the creature is dropped,
\* the seed stays advanced.
CreateCreature(D, types, maxCreates) ==
  /\ creates < maxCreates
  /\ ~strayed
  /\ \E type \in types \cap DOMAIN sizes, id \in D.id :
       seed' = createCreature(type, width, height, seed, id).seed
  /\ strayed' = TRUE
  /\ UNCHANGED <<variant, pop, width, height, creatures, plants, particles,
                 time, weather, dayPhase, ate, updates, creates, called, golden,
                 driver, isPaused, interval, frame, rainOverride>>

\* createPlant(type, W, H) called on its own.
CreatePlant(D, types, maxCreates) ==
  /\ creates < maxCreates
  /\ ~strayed
  /\ \E type \in types \cap DOMAIN maxSizes, id \in D.id, small \in BOOLEAN :
       seed' = createPlant(type, width, height, <<>>, small, seed, id).seed
  /\ strayed' = TRUE
  /\ UNCHANGED <<variant, pop, width, height, creatures, plants, particles,
                 time, weather, dayPhase, ate, updates, creates, called, golden,
                 driver, isPaused, interval, frame, rainOverride>>

\* The pause button: setIsPaused(!isPaused); the re-render runs the interval
\* effect's cleanup and the effect again (App.tsx), or hands the new
\* isPaused to WorldUpdater (which has no interval).
TogglePause ==
  /\ isPaused' = ~isPaused
  /\ interval' = (driver = "interval" /\ intervalEffect(isPaused'))
  /\ UNCHANGED <<variant, pop, seed, width, height, creatures, plants,
                 particles, time, weather, dayPhase, ate, updates, creates,
                 strayed, called, golden, driver, frame, rainOverride>>

\* A frame of WorldUpdater that is not a third one: frameRef.current++ and
\* nothing else.
SkippedFrame ==
  /\ driver = "frame"
  /\ frameRuns(isPaused)
  /\ ~frameUpdates(frame + 1)
  /\ frame' = frame + 1
  /\ UNCHANGED <<variant, pop, seed, width, height, creatures, plants,
                 particles, time, weather, dayPhase, ate, updates, creates,
                 strayed, called, golden, driver, isPaused, interval,
                 rainOverride>>

\* A frame of WorldUpdater while paused: the callback returns at once.
PausedFrame ==
  /\ driver = "frame"
  /\ ~frameRuns(isPaused)
  /\ UNCHANGED vars

\* A rain button that forces the simulation's weather (compared against
\* rainClick).
rainClickForcesWeather(prev, w) ==
  [rainOverride |-> IF prev = "true" THEN "false" ELSE "true",
   weather |-> IF prev = "true" THEN "clear" ELSE "rain"]

\* A rain button with three positions, the third being auto again (compared
\* against rainClick).
rainClickThreeWay(prev, w) ==
  [rainOverride |-> IF prev = "null" THEN "true"
                    ELSE IF prev = "true" THEN "false" ELSE "null",
   weather |-> w]

\* setRainOverride(prev => prev === true ? false : true), with what the
\* click leaves of world.weather (w before it).
rainClick(prev, w) ==
  [rainOverride |-> IF prev = "true" THEN "false" ELSE "true",
   weather |-> w]

\* The rain button.
ToggleRain ==
  /\ \E r \in {rainClick(rainOverride, weather)} :
       /\ rainOverride' = r.rainOverride
       /\ weather' = r.weather
  /\ UNCHANGED <<variant, pop, seed, width, height, creatures, plants,
                 particles, time, dayPhase, ate, updates, creates,
                 strayed, called, golden, driver, isPaused, interval, frame>>

\* Scene: const isRaining = rainOverride === true ||
\*          (rainOverride === null && world.weather === 'rain')
isRaining(override, w) ==
  override = "true" \/ (override = "null" /\ w = "rain")

\* One call of seededRandom() (made by randomInRange and the palette picks of
\* the exported createCreature and createPlant): the seed moves on; the value
\* returned is the new seed / 0x7fffffff.
SeededRandom ==
  /\ seed' = NextSeed(seed)
  /\ strayed' = TRUE
  /\ UNCHANGED <<variant, pop, width, height, creatures, plants, particles,
                 time, weather, dayPhase, ate, updates, creates, called, golden,
                 driver, isPaused, interval, frame, rainOverride>>

\* A counter that skips (compared against tick).
tickTwice(t) == t + 2

\* world.time++
tick(t) == t + 1

\* The phase advanced without the wrap (compared against advancePhase).
advanceUnwrapped(phase) == phase + 5

\* world.dayPhase = (world.dayPhase + 0.00005) % 1
advancePhase(phase) == (phase + 5) % 100000

\* world.dayPhase = 0.5
noon(phase) == 50000

\* An updateWorld that resamples the weather first, so that the plants and
\* the particles of the tick see the new weather (compared against
\* UpdateWorldReproductive).
UpdateWorldWeatherFirst(D, maxTime) ==
  /\ variant = "reproductive"
  /\ time < maxTime
  /\ driverCalls
  /\ driverCalled
  /\ time' = tick(time)
  /\ dayPhase' = advancePhase(dayPhase)
  /\ weather' \in updateWeather(D, weather)
  /\ \E c \in forEachCreature(D, variant, 1,
                              [creatures |-> creatures, plants |-> plants, ate |-> <<>>],
                              time', width, height) :
       /\ creatures' = c.creatures
       /\ ate' = c.ate
       /\ \E p \in forEachPlantReproductive(D, 1, Len(c.plants),
                                            [plants |-> c.plants, seed |-> seed],
                                            dayPhase', weather', width, height) :
            /\ plants' = p.plants
            /\ seed' = p.seed
            /\ strayed' = (strayed \/ p.seed # seed)
  /\ particles' \in updateParticles(D, particles, weather', width, height)
  /\ updates' = updates + 1
  /\ UNCHANGED <<variant, pop, width, height, creates, called, golden>>

\* updateWorld(world) of the reproductive variant (178-189).
UpdateWorldReproductive(D, maxTime) ==
  /\ variant = "reproductive"
  /\ time < maxTime
  /\ driverCalls
  /\ driverCalled
  /\ time' = tick(time)
  /\ dayPhase' = advancePhase(dayPhase)
  /\ \E c \in forEachCreature(D, variant, 1,
                              [creatures |-> creatures, plants |-> plants, ate |-> <<>>],
                              time', width, height) :
       /\ creatures' = c.creatures
       /\ ate' = c.ate
       /\ \E p \in forEachPlantReproductive(D, 1, Len(c.plants),
                                            [plants |-> c.plants, seed |-> seed],
                                            dayPhase', weather, width, height) :
            /\ plants' = p.plants
            /\ seed' = p.seed
            /\ strayed' = (strayed \/ p.seed # seed)
  /\ particles' \in updateParticles(D, particles, weather, width, height)
  /\ weather' \in updateWeather(D, weather)
  /\ updates' = updates + 1
  /\ UNCHANGED <<variant, pop, width, height, creates, called, golden>>

\* updateWorld(world) of the static variant (336-352).
UpdateWorldStatic(D, maxTime) ==
  /\ variant = "static"
  /\ time < maxTime
  /\ driverCalls
  /\ driverCalled
  /\ time' = tick(time)
  /\ dayPhase' = noon(dayPhase)
  /\ \E c \in forEachCreature(D, variant, 1,
                              [creatures |-> creatures, plants |-> plants, ate |-> <<>>],
                              time', width, height) :
       /\ creatures' = c.creatures
       /\ ate' = c.ate
       /\ plants' = forEachPlantStatic(c.plants, dayPhase', weather)
  /\ weather' \in updateWeather(D, weather)
  /\ updates' = updates + 1
  /\ UNCHANGED <<variant, pop, seed, width, height, particles, creates, strayed,
                 called, golden>>

(***************************************************************************)
(* Specifications.  Each explores one slice of the Math.random() outcomes. *)
(***************************************************************************)

\* The state after App's createWorld(width, height), w being what the call
\* returned.
started(w) ==
  /\ seed = w.seed
  /\ width = w.width
  /\ height = w.height
  /\ creatures = w.creatures
  /\ plants = w.plants
  /\ particles = w.particles
  /\ time = w.time
  /\ weather = w.weather
  /\ dayPhase = w.dayPhase
  /\ ate = [i \in 1..Len(w.creatures) |-> 0]
  /\ updates = 0
  /\ creates = 1
  /\ strayed = FALSE
  /\ called = INITIAL_SEED
  /\ golden = layout(w.creatures, w.plants)

StartWith(drivers, variants, dims, pops, ids) ==
  \E a \in drivers, v \in variants, d \in dims, p \in pops, id \in ids :
    /\ mounted(a)
    /\ variant = v
    /\ pop = p
    /\ \E w \in {createWorld(d[1], d[2], p, id, INITIAL_SEED)} : started(w)

Start(variants, dims, pops, ids) ==
  \E v \in variants, d \in dims, p \in pops, id \in ids :
    /\ mounted("interval")
    /\ variant = v
    /\ pop = p
    /\ \E w \in {createWorld(d[1], d[2], p, id, INITIAL_SEED)} : started(w)

NoGroup == [g \in DOMAIN POPULATION \cup {"perPatch"} |-> 0]

\* One bug, one butterfly, a flower, a small wildflower and a wide-patch
\* moss cushion.
Meadow ==
  [NoGroup EXCEPT !.bug = 1, !.butterfly = 1, !.flower = 1, !.smallWild = 1,
                  !.widePatches = 1, !.perPatch = 1]

\* A lone ant on bare ground: nothing to eat.
Fallow == [NoGroup EXCEPT !.ant = 1]

\* The smallest world the creature margin admits, and a roomier one.
Dims == {<<40, 40>>, <<60, 60>>}

\* The behaviour slice: every branch of the creature state machine, calm
\* weather, no emission, no spawning.
BehaviourDraws ==
  [state |-> {0, 7000, 9000}, dwell |-> {0, 9999}, angle |-> {1250, 6250},
   spawn |-> {9999}, offset |-> {5000}, id |-> {1}, emit |-> {9999},
   px |-> {5000}, pv |-> {5000}, weather |-> {9999}, pick |-> {0}]

MaxTime == 230

Variants == {"reproductive", "static"}

Init == Start(Variants, Dims, {Meadow, Fallow}, {1})

Next ==
  \/ UpdateWorldReproductive(BehaviourDraws, MaxTime)
  \/ UpdateWorldStatic(BehaviourDraws, MaxTime)

Spec == Init /\ [][Next]_vars

\* The application slice: both drivers, the pause and rain buttons pressed
\* at any moment, weather that turns and particles that are emitted.
Drivers == {"interval", "frame"}

AppDims == {<<60, 60>>}

AppDraws ==
  [state |-> {7000}, dwell |-> {9999}, angle |-> {1250},
   spawn |-> {9999}, offset |-> {5000}, id |-> {1}, emit |-> {0, 9999},
   px |-> {5000}, pv |-> {5000}, weather |-> {0, 9999}, pick |-> {0, 7000, 9000}]

MaxAppTime == 7

InitApp == StartWith(Drivers, Variants, AppDims, {Meadow}, {1})

NextApp ==
  \/ UpdateWorldReproductive(AppDraws, MaxAppTime)
  \/ UpdateWorldStatic(AppDraws, MaxAppTime)
  \/ TogglePause
  \/ SkippedFrame
  \/ PausedFrame
  \/ ToggleRain

SpecApp == InitApp /\ [][NextApp]_vars

\* The ordering slice: creatures that try to eat at every transition, a
\* particle emitted on every tick, and a weather that can turn to rain on any
\* tick (and then stays).
OrderDims == {<<60, 60>>}

OrderDraws ==
  [state |-> {9000}, dwell |-> {0}, angle |-> {1250},
   spawn |-> {9999}, offset |-> {5000}, id |-> {1}, emit |-> {0},
   px |-> {5000}, pv |-> {5000}, weather |-> {0, 9999}, pick |-> {7000}]

MaxOrderTime == 200

\* A lone ant beside a small wildflower that it can reach and that outgrows
\* its maxSize by less than two bites.
Verge == [NoGroup EXCEPT !.ant = 1, !.smallWild = 1]

InitOrder == Start(Variants, OrderDims, {Meadow, Verge}, {1})

NextOrder ==
  \/ UpdateWorldReproductive(OrderDraws, MaxOrderTime)
  \/ UpdateWorldStatic(OrderDraws, MaxOrderTime)

SpecOrder == InitOrder /\ [][NextOrder]_vars

\* The long slice: one behaviour per world, in which every creature comes to
\* rest when its first timer runs out and never eats.
Pond ==
  [NoGroup EXCEPT !.snail = 1, !.dragonfly = 1, !.ant = 1, !.grass = 1,
                  !.mushroom = 1]

LongDims == {<<200, 100>>}

RestDraws ==
  [state |-> {7000}, dwell |-> {9999}, angle |-> {0},
   spawn |-> {9999}, offset |-> {5000}, id |-> {1}, emit |-> {9999},
   px |-> {5000}, pv |-> {5000}, weather |-> {9999}, pick |-> {0}]

MaxLongTime == 20001

InitLong == Start(Variants, LongDims, {Pond}, {1})

NextLong ==
  \/ UpdateWorldReproductive(RestDraws, MaxLongTime)
  \/ UpdateWorldStatic(RestDraws, MaxLongTime)

SpecLong == InitLong /\ [][NextLong]_vars

\* The factory slice: createWorld, createCreature and createPlant called at
\* any moment of a behaviour of the reproductive variant in which every
\* fertile plant seeds.
Glade ==
  [NoGroup EXCEPT !.bee = 1, !.caterpillar = 1, !.daisy = 1,
                  !.mushroomPatches = 1, !.xlPatches = 1, !.perPatch = 1]

CreateDims == {<<60, 60>>, <<200, 100>>}

SeedingDraws ==
  [state |-> {0}, dwell |-> {9999}, angle |-> {0},
   spawn |-> {0}, offset |-> {5000}, id |-> {1, 2}, emit |-> {9999},
   px |-> {5000}, pv |-> {5000}, weather |-> {9999}, pick |-> {0}]

CreateTypes == {"ant", "tulip"}

MaxCreateTime == 2001

MaxCreates == 2

InitCreate == Start({"reproductive"}, CreateDims, {Glade}, {1})

\* The calls explored: a factory is called on a world no frame has touched
\* yet or once a plant has seeded, and the frames run on from a world whose
\* construction was the last factory call.
NextCreate ==
  \/ (updates = 0 \/ strayed) /\ CreateWorld(SeedingDraws, MaxCreates)
  \/ updates = 0 /\ CreateCreature(SeedingDraws, CreateTypes, MaxCreates)
  \/ updates = 0 /\ CreatePlant(SeedingDraws, CreateTypes, MaxCreates)
  \/ (updates > 0 \/ ~strayed) /\ UpdateWorldReproductive(SeedingDraws, MaxCreateTime)

SpecCreate == InitCreate /\ [][NextCreate]_vars

\* The seeding slice: lawns of grass two, one and no plant short of the cap
\* of 300, run until the grass is old enough to seed; every fertile plant
\* then draws a seeding, at either end or the middle of the offset range.
Lawn(n) == [NoGroup EXCEPT !.grass = n]

Lawns == {Lawn(298), Lawn(299), Lawn(300)}

SpawnDims == {<<60, 60>>, <<200, 100>>}

SpawnDraws ==
  [state |-> {7000}, dwell |-> {9999}, angle |-> {0},
   spawn |-> {0}, offset |-> {0, 5000, 9999}, id |-> {1}, emit |-> {9999},
   px |-> {5000}, pv |-> {5000}, weather |-> {9999}, pick |-> {0}]

MaxSpawnTime == 2003

InitSpawn == Start({"reproductive"}, SpawnDims, Lawns, {1})

NextSpawn == UpdateWorldReproductive(SpawnDraws, MaxSpawnTime)

SpecSpawn == InitSpawn /\ [][NextSpawn]_vars

\* The particle slice (reproductive variant, the one with particles).  In a
\* small world the weather turns either way on any tick and a particle may be
\* emitted on any tick, near the left edge or mid-world, pollen at either end
\* of its velocity range.  In a world taller than a rain drop can fall in its
\* 200 ticks of life, it rains from the first tick on, one drop per tick.
ParticleDims == {<<60, 60>>, <<60, 700>>}

DriftDraws ==
  [state |-> {7000}, dwell |-> {9999}, angle |-> {0},
   spawn |-> {9999}, offset |-> {5000}, id |-> {1}, emit |-> {0, 9999},
   px |-> {200, 5000}, pv |-> {0, 9999}, weather |-> {0, 9999}, pick |-> {0, 7000}]

FallDraws ==
  [state |-> {7000}, dwell |-> {9999}, angle |-> {0},
   spawn |-> {9999}, offset |-> {5000}, id |-> {1}, emit |-> {0},
   px |-> {5000}, pv |-> {5000}, weather |-> {0}, pick |-> {7000}]

MaxDriftTime == 8

MaxFallTime == 210

InitParticles == Start({"reproductive"}, ParticleDims, {Fallow}, {1})

NextParticles ==
  \/ height = 60 /\ UpdateWorldReproductive(DriftDraws, MaxDriftTime)
  \/ height = 700 /\ UpdateWorldReproductive(FallDraws, MaxFallTime)

SpecParticles == InitParticles /\ [][NextParticles]_vars

\* The generator slice: seededRandom() called any number of times, and
\* createWorld (which resets the seed) called again.
SeedDims == {<<60, 60>>}

MaxSeedCreates == 2

InitSeed == Start({"static"}, SeedDims, {Fallow}, {1})

\* The resets explored: those made when the last value returned was within
\* 1/4096 of 1.
NextSeeded ==
  \/ SeededRandom
  \/ SeedFraction(seed) >= 65520 /\ CreateWorld(RestDraws, MaxSeedCreates)

SpecSeed == InitSeed /\ [][NextSeeded]_vars

\* The grazing slice (reproductive variant): worlds that start with 300 plants
\* or more.  A pasture is a lawn of exactly 300 grass with an ant,
\* run until the grass is old enough to seed; an uncut world has every plant
\* loop of createWorld at the count of the code and two creatures of each
\* type.  Every re-roll draws eat, and every fertile plant draws a seeding.
Pasture == [Lawn(300) EXCEPT !.ant = 1]

Uncut ==
  [g \in DOMAIN NoGroup |->
     IF g = "perPatch" THEN 100
     ELSE IF g \in {"bug", "snail", "butterfly", "dragonfly", "bee",
                    "caterpillar", "ant"} THEN 2
     ELSE POPULATION[g]]

GrazeDims == {<<200, 100>>}

GrazeDraws ==
  [state |-> {9000}, dwell |-> {0}, angle |-> {1250},
   spawn |-> {0}, offset |-> {5000}, id |-> {1}, emit |-> {9999},
   px |-> {5000}, pv |-> {5000}, weather |-> {9999}, pick |-> {0}]

MaxGrazeTime == 2003

MaxUncutTime == 150

InitGraze == Start({"reproductive"}, GrazeDims, {Pasture, Uncut}, {1})

NextGraze ==
  \/ pop = Pasture /\ UpdateWorldReproductive(GrazeDraws, MaxGrazeTime)
  \/ pop = Uncut /\ UpdateWorldReproductive(GrazeDraws, MaxUncutTime)

SpecGraze == InitGraze /\ [][NextGraze]_vars

\* The foraging slice (both variants): a thicket of thirty tufts of grass,
\* every one large enough to steer for and to bite, with two ants and a bug
\* among them, and the verge, where the ant enters eat more than 15 from the
\* only plant; a re-roll draws rest or eat, on the shortest or longest dwell.
Thicket == [NoGroup EXCEPT !.grass = 30, !.ant = 2, !.bug = 1]

ForageDims == {<<100, 100>>}

ForageDraws ==
  [state |-> {7000, 9000}, dwell |-> {0, 9999}, angle |-> {1250},
   spawn |-> {9999}, offset |-> {5000}, id |-> {1}, emit |-> {9999},
   px |-> {5000}, pv |-> {5000}, weather |-> {9999}, pick |-> {0}]

MaxForageTime == 200

InitForage == Start(Variants, ForageDims, {Thicket, Verge}, {1})

NextForage ==
  \/ UpdateWorldReproductive(ForageDraws, MaxForageTime)
  \/ UpdateWorldStatic(ForageDraws, MaxForageTime)

SpecForage == InitForage /\ [][NextForage]_vars

\* The dwell slice (both variants): every re-roll draws any of the three
\* branches and the longest dwell of its range, for long enough that a dwell
\* of 300 ticks that began after the first one runs out.
DwellDims == {<<60, 60>>}

DwellDraws ==
  [state |-> {0, 7000, 9000}, dwell |-> {9999}, angle |-> {1250},
   spawn |-> {9999}, offset |-> {5000}, id |-> {1}, emit |-> {9999},
   px |-> {5000}, pv |-> {5000}, weather |-> {9999}, pick |-> {0}]

MaxDwellTime == 490

InitDwell == Start(Variants, DwellDims, {Verge}, {1})

NextDwell ==
  \/ UpdateWorldReproductive(DwellDraws, MaxDwellTime)
  \/ UpdateWorldStatic(DwellDraws, MaxDwellTime)

SpecDwell == InitDwell /\ [][NextDwell]_vars

(***************************************************************************)
(* Properties                                                              *)
(***************************************************************************)

Creatures == 1..Len(creatures)

Plants == 1..Len(plants)

\* C1: every creature of a world created with width, height >= 40 lies, at
\* creation and after every updateWorld, inside the margin:
\* 20 <= pos.x <= width - 20 and 20 <= pos.y <= height - 20.
C1_CreatureInsideMargin ==
  \A i \in Creatures :
    /\ creatures[i].pos.x >= 2000
    /\ creatures[i].pos.x <= (width - 20) * 100
    /\ creatures[i].pos.y >= 2000
    /\ creatures[i].pos.y <= (height - 20) * 100

\* A creature of the roomier world, created off the far edge, has run into it
\* and been put back on the margin.
C1_PutBackOnFarEdge ==
  /\ width = 60
  /\ updates > 0
  /\ \E i \in Creatures :
       \/ creatures[i].pos.x = (width - 20) * 100 /\ creatures[i].vel.x < 0
       \/ creatures[i].pos.y = (height - 20) * 100 /\ creatures[i].vel.y < 0

\* C2: createWorld is deterministic whatever was called before it: a world
\* as createWorld has just returned it agrees with the first world built for
\* the same width and height on every creature's type, position, size,
\* colour index and stateTimer and every plant's type, position, size,
\* maxSize, growthRate and colour index.
C2_CreateWorldDeterministic ==
  (updates = 0 /\ ~strayed) => layout(creatures, plants) = golden

\* A world rebuilt with other ids by a call that found the seed where the
\* seeding plants of the previous world had left it (not where createWorld,
\* createCreature or createPlant leave it).
C2_RebuiltAfterSeeding ==
  /\ creates >= 2
  /\ updates = 0
  /\ ~strayed
  /\ \E i \in Creatures : creatures[i].id # 1
  /\ \E s \in {createWorld(width, height, pop, 1, INITIAL_SEED).seed} :
       \E d \in {draws(s, 6)} : called \notin {INITIAL_SEED, s, d[5], d[6]}

\* C3: no plant's size exceeds its maxSize, at creation and after every
\* updateWorld.
C3_SizeWithinMaxSize ==
  \A i \in Plants : plants[i].size <= plants[i].maxSize

\* C4: in both variants, a plant that no creature bit during an updateWorld
\* is at least as large after the call as before it.
C4_UneatenPlantsDoNotShrink ==
  [][\A i \in Plants :
       (\A j \in 1..Len(ate') : ate'[j] # i)
         => /\ i <= Len(plants')
            /\ plants'[i].size >= plants[i].size]_vars

\* One plant was bitten in the last updateWorld while another, left alone,
\* has grown since creation.
C4_GrewBesideABittenPlant ==
  /\ \E j \in Creatures : ate[j] # 0
  /\ \E i \in Plants :
       /\ \A j \in Creatures : ate[j] # i
       /\ plants[i].size > golden.plants[i].size

\* C5: every creature's energy is at most 100, at creation and after every
\* updateWorld.
C5_EnergyAtMost100 ==
  \A i \in Creatures : creatures[i].energy <= 100000

\* A creature has just eaten with its energy at the cap: it is left with
\* 100 less the tick's drain.
C5_AteAtTheCap ==
  \E i \in Creatures : ate[i] # 0 /\ creatures[i].energy = 100000 - 5

\* C6: energy has no floor.  Every updateWorld takes 0.005 from the energy of
\* every creature that did not eat, whatever its state; energy below 0 is
\* reached, and only after more than 20000 ticks; and updateWorld keeps the
\* creatures collection member for member.
C6_EnergyHasNoFloor ==
  /\ [](\A i \in Creatures : creatures[i].energy < 0 => time > 20000)
  /\ [][/\ Len(creatures') = Len(creatures)
        /\ \A i \in Creatures :
             /\ creatures'[i].id = creatures[i].id
             /\ creatures'[i].type = creatures[i].type
             /\ ate'[i] = 0 => creatures'[i].energy = creatures[i].energy - 5]_vars

\* A resting creature with energy below zero.
C6_EnergyBelowZero ==
  \E i \in Creatures : creatures[i].energy < 0 /\ creatures[i].state = "rest"

\* C7: every creature's state is one of wander, rest and eat, at creation
\* and after every updateWorld.
C7_StateIsOneOfThree ==
  \A i \in Creatures : creatures[i].state \in {"wander", "rest", "eat"}

\* One creature eats while another rests.
C7_EatingAndResting ==
  \E i, j \in Creatures :
    creatures[i].state = "eat" /\ creatures[j].state = "rest"

\* C8: a tick that leaves a creature's timer running takes exactly 1 from
\* it; a tick on which the timer runs out gives it a new, strictly positive
\* value; so stateTimer is strictly positive after every updateWorld.
C8_TimerCountsDownOrRerolls ==
  /\ [](\A i \in Creatures : creatures[i].stateTimer > 0)
  /\ [][\A i \in Creatures :
          IF creatures[i].stateTimer - 100 > 0
          THEN /\ creatures'[i].stateTimer = creatures[i].stateTimer - 100
               /\ creatures'[i].state = creatures[i].state
          ELSE creatures'[i].stateTimer > 0]_vars

\* A timer above every value createCreature gives: it was re-rolled.
C8_TimerRerolled ==
  \E i \in Creatures : updates > 0 /\ creatures[i].stateTimer > 18000

\* C9: world.time is 0 after createWorld and every updateWorld adds exactly
\* 1 to it: after n calls it is n, and it never decreases.
C9_TimeCountsUpdates ==
  /\ [](time = updates)
  /\ [][time' = time + 1]_vars

\* A world of the static variant after 100 updateWorld calls.
C9_HundredTicks ==
  variant = "static" /\ updates = 100 /\ time = 100

\* C10: 0 <= dayPhase < 1 after createWorld and after every updateWorld; a
\* tick of the cycling (reproductive) variant leaves (dayPhase + 0.00005)
\* modulo 1, a tick of the frozen (static) variant leaves 0.5.
C10_DayPhaseInRange ==
  /\ [](dayPhase >= 0 /\ dayPhase < 100000)
  /\ [][IF variant = "reproductive"
        THEN dayPhase' = (dayPhase + 5) % 100000
        ELSE dayPhase' = 50000]_vars

\* The cycling variant past midnight: the phase is below the 0.35 it was
\* created with.
C10_WrappedPastMidnight ==
  variant = "reproductive" /\ updates > 0 /\ dayPhase < 35000


\* C11: the world createWorld has just returned (no updateWorld since) has
\* time 0, weather clear, dayPhase 0.35 and no particles, and every creature
\* in it is in state wander with velocity (0, 0), energy 100 and a stateTimer
\* between 60 and 180.
C11_FreshWorld ==
  updates = 0 =>
    /\ time = 0
    /\ weather = "clear"
    /\ dayPhase = 35000
    /\ dayPhase # 0
    /\ particles = <<>>
    /\ \A i \in Creatures :
         /\ creatures[i].state = "wander"
         /\ creatures[i].vel = [x |-> 0, y |-> 0]
         /\ creatures[i].energy = 100000
         /\ creatures[i].stateTimer >= 6000
         /\ creatures[i].stateTimer <= 18000

\* A world with creatures in it that createWorld returned after the previous
\* one had been running long enough for a plant to seed (the call found the
\* seed where neither createWorld, createCreature nor createPlant leave it).
C11_FreshAfterARun ==
  /\ creates >= 2
  /\ updates = 0
  /\ time = 0
  /\ Len(creatures) > 0
  /\ \E i \in Creatures : creatures[i].stateTimer > 6000
  /\ \E s \in {createWorld(width, height, pop, 1, INITIAL_SEED).seed} :
       \E d \in {draws(s, 6)} : called \notin {INITIAL_SEED, s, d[5], d[6]}

\* C12: while isPaused is true no step changes world.time or any field of the
\* world or of its creatures, plants and particles, and updateWorld is not
\* called, under the interval driver and under the per-frame driver.
C12_PausedWorldStandsStill ==
  [][isPaused => UNCHANGED <<world, ate, updates, seed>>]_vars

\* Paused after the world has run, on the frame driver at a point where the
\* next frame that runs is a third one, with a frame having been dropped
\* short of it.
C12_PausedBeforeAThirdFrame ==
  /\ isPaused
  /\ updates > 0
  /\ time = updates
  /\ driver = "frame"
  /\ frameUpdates(frame + 1)
  /\ ~interval

\* C13: a step that changes rainOverride changes no field of the world (nor
\* the seed), and world.weather changes only in a step that is an updateWorld
\* call, to a weather updateWeather can sample.
C13_RainToggleIsAnOverlay ==
  [][/\ rainOverride' # rainOverride =>
          UNCHANGED <<world, ate, updates, seed>>
     /\ weather' # weather =>
          /\ updates' = updates + 1
          /\ rainOverride' = rainOverride
          /\ weather' \in updateWeather(AppDraws, weather)]_vars

\* The button has been pressed back to "off" while the simulation's own
\* weather, turned by updateWeather, is rain: the scene shows no rain.
C13_OverlayOffWhileItRains ==
  /\ rainOverride = "false"
  /\ weather = "rain"
  /\ updates > 0
  /\ ~isRaining(rainOverride, weather)
  /\ isRaining("null", weather)

C16_TransitionOnlyWhenTimerRunsOut ==
  [][updates' = updates + 1 =>
       \A i \in Creatures :
         /\ creatures'[i].state # creatures[i].state =>
               creatures[i].stateTimer - 100 <= 0
         /\ IF creatures[i].stateTimer - 100 > 0
            THEN /\ creatures'[i].state = creatures[i].state
                 /\ creatures'[i].stateTimer = creatures[i].stateTimer - 100
            ELSE \/ /\ creatures'[i].state = "wander"
                    /\ creatures'[i].stateTimer >= 6000
                    /\ creatures'[i].stateTimer <= 30000
                 \/ /\ creatures'[i].state = "rest"
                    /\ creatures'[i].stateTimer >= 6000
                    /\ creatures'[i].stateTimer <= 18000
                 \/ /\ creatures'[i].state = "eat"
                    /\ creatures'[i].stateTimer >= 6000
                    /\ creatures'[i].stateTimer <= 12000]_vars

\* A creature one tick short of its transition (the decrement of the next
\* tick takes its timer to 0 or below) that has been through a transition
\* before: it rests, which no creature does from creation.
C16_RestAboutToEnd ==
  \E i \in Creatures :
    /\ creatures[i].state = "rest"
    /\ creatures[i].stateTimer > 0
    /\ expired(creatures[i].stateTimer - 100)

\* The eat branch of the re-roll alone: Math.random() >= 0.85.
EatDraws == [BehaviourDraws EXCEPT !.state = {9000}]

\* C17: a creature comes to be in state eat only on a tick whose decremented
\* timer is <= 0 and at whose start some plant lay at distance < 50 of it
\* with size > 3; wherever the eat branch is taken by a creature with no
\* such plant, the state machine leaves it in state wander with a stateTimer
\* between 60 and 120; and after every tick every creature has one of the
\* three states and a positive timer.
C17_EatOnlyNearAPlant ==
  /\ [](\A i \in Creatures :
          (/\ expired(creatures[i].stateTimer - 100)
           /\ findNearbyPlant(plants, creatures[i].pos, 5000, 30000) = 0) =>
            \A m \in stateMachine(EatDraws, variant, creatures[i], plants) :
              /\ m.state = "wander"
              /\ m.stateTimer >= 6000
              /\ m.stateTimer <= 12000)
  /\ [][updates' = updates + 1 =>
          \A i \in Creatures :
            /\ creatures'[i].state \in {"wander", "rest", "eat"}
            /\ creatures'[i].stateTimer > 0
            /\ (/\ creatures'[i].state = "eat"
                /\ (creatures[i].state # "eat"
                     \/ expired(creatures[i].stateTimer - 100))) =>
                 /\ expired(creatures[i].stateTimer - 100)
                 /\ \E k \in Plants :
                      /\ distance(creatures[i].pos, plants[k].pos) < 5000
                      /\ plants[k].size > 30000
            /\ (/\ expired(creatures[i].stateTimer - 100)
                /\ findNearbyPlant(plants, creatures[i].pos, 5000, 30000) = 0) =>
                 creatures'[i].state # "eat"]_vars

\* On bare ground, after the timer createCreature gave has run out for sure
\* (at most 180 ticks): a creature that wanders on a short dwell without ever
\* having been given a heading, which only the failed search does.
C17_FellBackToWander ==
  \E i \in Creatures :
    /\ Len(plants) = 0
    /\ updates > 180
    /\ creatures[i].state = "wander"
    /\ creatures[i].stateTimer <= 12000
    /\ creatures[i].vel = [x |-> 0, y |-> 0]

\* The length of a velocity, in hundredths.
magnitude(vel) == Sqrt(vel.x * vel.x + vel.y * vel.y)

\* |a - b| <= 2: equal up to the rounding of the fixed-point sines.
about(a, b) == a - b <= 2 /\ b - a <= 2

\* C18: on every tick whose decremented timer is <= 0 (a transition) a
\* creature other than a butterfly (whose velocity the flutter then bends)
\* ends with a velocity of the type's base speed if the transition is to
\* wander, a zero velocity if it is to rest, and one of half the base speed
\* if it is to eat (the boundary tests only change signs).
C18_TransitionResetsVelocity ==
  [][updates' = updates + 1 =>
       \A i \in Creatures :
         (expired(creatures[i].stateTimer - 100) /\ creatures[i].type # "butterfly") =>
           /\ creatures'[i].state = "wander" =>
                about(magnitude(creatures'[i].vel), speedOf(variant, creatures[i].type))
           /\ creatures'[i].state = "rest" =>
                creatures'[i].vel = [x |-> 0, y |-> 0]
           /\ creatures'[i].state = "eat" =>
                about(magnitude(creatures'[i].vel),
                      speedOf(variant, creatures[i].type) \div 2)]_vars

\* The number of creatures that bit plant k in the tick just taken.
bites(k, eaten) == Cardinality({j \in 1..Len(eaten) : eaten[j] = k})

\* C19: in every tick a creature bites a plant only if it ends the tick in
\* state eat less than 15 from that plant, whose size was above 2; when no
\* other creature bit, the plant it bites is the first plant less than 15
\* from it with size > 2 if it is in state eat and there is one, and none
\* otherwise; a creature that bit has energy min(100, energy + 0.1) less the
\* drain, one that did not has its energy less the drain; and every plant's
\* size after the tick is its growth step applied to its size less 0.01 per
\* bite, so that a plant nobody bit is not smaller than before.
C19_BiteFeedsTheEater ==
  [][updates' = updates + 1 =>
       /\ \A j \in Creatures :
            /\ ate'[j] # 0 =>
                 /\ creatures'[j].state = "eat"
                 /\ ate'[j] \in Plants
                 /\ distance(creatures'[j].pos, plants[ate'[j]].pos) < 1500
                 /\ plants[ate'[j]].size > 20000
            /\ (\A h \in Creatures \ {j} : ate'[h] = 0) =>
                 ate'[j] = IF creatures'[j].state = "eat"
                           THEN findNearbyPlant(plants, creatures'[j].pos, 1500, 20000)
                           ELSE 0
            /\ creatures'[j].energy =
                 IF ate'[j] # 0
                 THEN Min(100000, creatures[j].energy + 100) - 5
                 ELSE creatures[j].energy - 5
       /\ Len(plants') = Len(plants)
       /\ \A k \in Plants :
            /\ plants'[k].size =
                 grow([plants[k] EXCEPT !.size = @ - 100 * bites(k, ate')],
                      dayPhase', weather).size
            /\ bites(k, ate') = 0 => plants'[k].size >= plants[k].size
            /\ plants'[k].size < plants[k].size => bites(k, ate') > 0]_vars

\* Two creatures below the energy cap have just bitten the same plant in one
\* tick, each taking 0.01 from it.
C19_TwoBitOnePlant ==
  \E j, h \in Creatures :
    /\ j # h
    /\ ate[j] # 0
    /\ ate[h] = ate[j]
    /\ bites(ate[j], ate) = 2
    /\ creatures[j].state = "eat"
    /\ creatures[j].energy < ENERGY_MAX - ENERGY_DRAIN

\* C20: in the static variant the plants collection has, after any number
\* of ticks, the length it was created with and, index by index, the plants
\* it was created with (same id, type, position, maxSize, growthRate and
\* colour), and after every tick every plant's size is at least 0.5.
C20_StaticPlantsStayPut ==
  /\ [](variant = "static" =>
          /\ Len(plants) = Len(golden.plants)
          /\ \A k \in Plants :
               /\ plants[k].type = golden.plants[k].type
               /\ plants[k].pos = golden.plants[k].pos
               /\ plants[k].maxSize = golden.plants[k].maxSize
               /\ plants[k].growthRate = golden.plants[k].growthRate
               /\ plants[k].color = golden.plants[k].color
               /\ plants[k].age = updates
               /\ updates > 0 => plants[k].size >= 5000)
  /\ [][variant = "static" =>
          /\ Len(plants') = Len(plants)
          /\ \A k \in Plants : plants'[k].id = plants[k].id]_vars

\* A static world old enough for its plants to seed in the other variant:
\* every plant is past the seeding age and above 0.8 of its maxSize.
C20_OldStaticPlants ==
  /\ variant = "static"
  /\ Len(plants) > 1
  /\ time > SPAWN_AGE
  /\ \A k \in Plants :
       /\ plants[k].age > SPAWN_AGE
       /\ plants[k].size > (plants[k].maxSize * 8) \div 10

\* The colours of the two kinds of particle updateParticles emits.
RAIN_COLOR == "#a0c4e8"

POLLEN_COLOR == "#fff8dc"

\* C15: in every updateWorld call time goes up by one and dayPhase is set;
\* the creatures are updated against the incremented time; every plant then
\* grows from its size less the bites of this tick, with the dayPhase this
\* tick has set and the weather the previous tick left; the particle a tick
\* emits (reproductive variant) is of the kind of the weather the previous
\* tick left; and the weather is resampled from that same weather.
C15_StepsRunInOrder ==
  [][updates' = updates + 1 =>
       /\ time' = time + 1
       /\ dayPhase' = IF variant = "reproductive"
                      THEN (dayPhase + 5) % 100000 ELSE 50000
       /\ \A i \in Creatures :
            (\A j \in Creatures \ {i} : ate'[j] = 0) =>
              \E o \in updateCreature(OrderDraws, variant, creatures[i], plants,
                                      time + 1, width, height) :
                o.creature = creatures'[i]
       /\ Len(plants') = Len(plants)
       /\ \A k \in Plants :
            LET eaten == plants[k].size - BITE * bites(k, ate')
                gain == (plants[k].growthRate * dayBonus(dayPhase')
                         * (IF weather = "rain" THEN 15 ELSE 10)) \div 10000
            IN plants'[k].size = IF eaten < plants[k].maxSize
                                 THEN eaten + gain ELSE eaten
       /\ IF variant = "reproductive"
          THEN /\ Len(particles') > 0
               /\ particles'[Len(particles')].color =
                    IF weather = "rain" THEN RAIN_COLOR ELSE POLLEN_COLOR
               /\ particles'[Len(particles')].life =
                    IF weather = "rain" THEN 200 ELSE 300
          ELSE particles' = particles
       /\ weather' # weather => weather = "clear" /\ weather' = "rain"]_vars

\* In the rain (the last particle is a rain drop, so the tick before also
\* left rain) a creature has just bitten a plant that stood at or above its
\* maxSize: the bite took it below, and the plant grew in the same tick.
C15_BittenBelowMaxSizeThenGrew ==
  /\ variant = "reproductive"
  /\ weather = "rain"
  /\ Len(particles) >= 1
  /\ particles[Len(particles)].color = RAIN_COLOR
  /\ \E j \in Creatures :
       /\ ate[j] # 0
       /\ \E gain \in {(plants[ate[j]].growthRate * dayBonus(dayPhase) * 15) \div 10000} :
            /\ gain > 0
            /\ plants[ate[j]].size - gain < plants[ate[j]].maxSize
            /\ plants[ate[j]].size - gain + BITE >= plants[ate[j]].maxSize

\* C21: in the reproductive variant every plant a tick adds sits at an index
\* of at most 300 (it was pushed while the collection held fewer than 300),
\* has age 0 and a size between 1 and 3, and has a parent among the plants of
\* before the tick which after the tick's growth has age > 2000 and
\* size > 0.8 x maxSize, whose type it shares and from which it lies at most
\* 40 away on each axis, clamped to [30, width - 30] x [30, height - 30]; and
\* the plant count never exceeds max(initial count, 300).
C21_SeedlingsNearOldParentsUnderTheCap ==
  /\ [](Len(plants) <= Max(Len(golden.plants), 300))
  /\ [][updates' = updates + 1 =>
          /\ Len(plants') >= Len(plants)
          /\ \A n \in (Len(plants) + 1)..Len(plants') :
               /\ n <= 300
               /\ plants'[n].age = 0
               /\ plants'[n].size >= 10000
               /\ plants'[n].size <= 30000
               /\ \E k \in Plants :
                    /\ plants'[k].age > 2000
                    /\ plants'[k].size * 10 > plants'[k].maxSize * 8
                    /\ plants'[n].type = plants[k].type
                    /\ plants'[n].pos.x >= Clamp(3000, (width - 30) * 100,
                                                 plants[k].pos.x - 4000)
                    /\ plants'[n].pos.x <= Clamp(3000, (width - 30) * 100,
                                                 plants[k].pos.x + 4000)
                    /\ plants'[n].pos.y >= Clamp(3000, (height - 30) * 100,
                                                 plants[k].pos.y - 4000)
                    /\ plants'[n].pos.y <= Clamp(3000, (height - 30) * 100,
                                                 plants[k].pos.y + 4000)]_vars

\* A lawn of 298 that its first two plants, old enough, brought to the cap in
\* one tick; the tick after, every plant was fertile and none seeded.  The
\* second seedling lies off its parent, pushed against the low margin.
C21_TwoSeedlingsReachTheCap ==
  /\ Len(golden.plants) = 298
  /\ Len(plants) = 300
  /\ width = 200
  /\ plants[299].age = 1
  /\ plants[300].age = 1
  /\ plants[1].age > SPAWN_AGE + 1
  /\ plants[300].pos.x # plants[2].pos.x
  /\ plants[300].type = "grass"

\* The world rectangle [0, width] x [0, height].
inside(pos) ==
  /\ pos.x >= 0
  /\ pos.x <= width * 100
  /\ pos.y >= 0
  /\ pos.y <= height * 100

\* Where a particle was before its last move.
before(p) == [x |-> p.pos.x - p.vel.x, y |-> p.pos.y - p.vel.y]

\* C22: after every tick, no particle of world.particles that was inside the
\* world rectangle before the tick's move lies outside it: a particle that
\* leaves the rectangle, on any side, is removed in that tick.
C22_NoParticleRemainsOutside ==
  \A n \in 1..Len(particles) :
    (particles[n].life < particles[n].maxLife /\ inside(before(particles[n])))
      => inside(particles[n].pos)

\* C23: the generator's state is always in [0, 2^31 - 1]; the value the last
\* seededRandom() returned, seed / 0x7fffffff, is in [0, 1), never 1, so a
\* palette index drawn from it is below the palette's length; and a
\* createWorld call leaves the seed where a build from 12345 leaves it,
\* whatever the seed was before.
C23_SeedInRangeFractionBelowOne ==
  /\ [](/\ seed >= 0
        /\ seed <= 2147483647
        /\ SeedFraction(seed) >= 0
        /\ SeedFraction(seed) < 65536
        /\ \A length \in 1..6 : PaletteIndex(seed, length) < length
        /\ resetSeed(seed) = 12345)
  /\ [][creates' = creates + 1 =>
          seed' = createWorld(width, height, pop, 1, 12345).seed]_vars

\* The seed at which the sequence from 12345 closes its cycle (it is met
\* again 10466 calls later), reached after a createWorld call that reset a
\* seed which had run on to within 1/4096 of the top of its range.
C23_CycleClosedAfterAReset ==
  /\ seed = 1372572160
  /\ strayed
  /\ creates = 2
  /\ SeedFraction(called) >= 65520

\* C24: an updateWorld call leaves world.width and world.height, every
\* creature's id, type, size and colour and every plant's id, type, position,
\* maxSize, growthRate and colour as they were, and adds exactly 1 to the age
\* of every plant it updates (those the collection held before the call).
C24_IdentityFieldsAreFrozen ==
  [][updates' = updates + 1 =>
       /\ width' = width
       /\ height' = height
       /\ Len(creatures') = Len(creatures)
       /\ \A i \in Creatures :
            /\ creatures'[i].id = creatures[i].id
            /\ creatures'[i].type = creatures[i].type
            /\ creatures'[i].size = creatures[i].size
            /\ creatures'[i].color = creatures[i].color
       /\ Len(plants') >= Len(plants)
       /\ \A k \in Plants :
            /\ plants'[k].id = plants[k].id
            /\ plants'[k].type = plants[k].type
            /\ plants'[k].pos = plants[k].pos
            /\ plants'[k].maxSize = plants[k].maxSize
            /\ plants'[k].growthRate = plants[k].growthRate
            /\ plants'[k].color = plants[k].color
            /\ plants'[k].age = plants[k].age + 1]_vars

\* A world that has run for a while: a creature has moved from where it was
\* created, a plant has changed size, one plant stands above its maxSize,
\* and a creature has just bitten a plant.
C24_EverythingElseHasChanged ==
  /\ updates >= 100
  /\ \E i \in Creatures : creatures[i].pos # golden.creatures[i].pos
  /\ \E k \in Plants : plants[k].size # golden.plants[k].size
  /\ \E k \in Plants : plants[k].size > plants[k].maxSize /\ plants[k].age = updates
  /\ \E j \in Creatures : ate[j] # 0

\* C25: the day-phase growth multiplier is zero at dayPhase 0 (midnight), and
\* nowhere above its value at dayPhase 0.5 (noon).
C25_NoGrowthAtMidnight ==
  /\ dayPhase = 0 => dayBonus(dayPhase) = 0
  /\ dayBonus(dayPhase) <= dayBonus(50000)

\* C26: in a world that createWorld made with 300 plants or more, advanced by
\* the reproductive updateWorld, the plants collection keeps its length: every
\* plant starts with size >= 1, no plant's size ever falls below 0.5 (so none
\* is removed), and none is spawned.
C26_CreatedWorldKeepsItsPlants ==
  /\ \A k \in 1..Len(golden.plants) : golden.plants[k].size >= 10000
  /\ \A k \in Plants : plants[k].size >= MIN_SIZE
  /\ Len(golden.plants) >= PLANT_CAP => Len(plants) = Len(golden.plants)

\* A pasture where in one tick a creature bit a plant and a plant old and
\* grown enough to seed drew a seeding, and the count stayed at 300.
C26_BittenAmongFertilePlants ==
  /\ pop = Pasture
  /\ Len(plants) = PLANT_CAP
  /\ \E i \in Creatures : ate[i] # 0
  /\ \E k \in Plants :
       plants[k].age > SPAWN_AGE /\ plants[k].size > (plants[k].maxSize * 8) \div 10

\* The size of plant k as creature j finds it in the tick just taken: less
\* 0.01 for each bite of a creature before j.
seen(k, j, eaten) ==
  plants[k].size - BITE * Cardinality({h \in 1..(j - 1) : eaten[h] = k})

\* The plants within 15 of creature j's new position whose size it finds > 2.
reach(j, at, eaten) ==
  {k \in Plants : /\ distance(at, plants[k].pos) < 1500
                  /\ seen(k, j, eaten) > 20000}

\* The direction creature j took if it turned toward plant t on the tick just
\* taken (it stood at pos - vel before the move).
toward(c, t) ==
  LET dir == normalize(plants[t].pos.x - (c.pos.x - c.vel.x),
                       plants[t].pos.y - (c.pos.y - c.vel.y))
  IN [x |-> Div(dir.x * speedOf(variant, c.type), 2000),
      y |-> Div(dir.y * speedOf(variant, c.type), 2000)]

\* C27: in every tick the plant a creature bites is the lowest-index plant
\* within 15 of it whose size it finds > 2, if it is in state eat and there is
\* one, and none otherwise, whatever it bit the tick before; a creature with
\* no plant within 15 bites nothing and its energy only drains.
C27_BitesTheFirstPlantInReach ==
  [][updates' = updates + 1 =>
       \A j \in Creatures :
         /\ ate'[j] =
              IF creatures'[j].state = "eat" /\ reach(j, creatures'[j].pos, ate') # {}
              THEN CHOOSE k \in reach(j, creatures'[j].pos, ate') :
                     \A n \in reach(j, creatures'[j].pos, ate') : k <= n
              ELSE 0
         /\ (\A k \in Plants :
               distance(creatures'[j].pos, plants[k].pos) >= 1500) =>
              /\ ate'[j] = 0
              /\ creatures'[j].energy = creatures[j].energy - ENERGY_DRAIN]_vars

\* A creature that entered eat in the tick just taken (its timer is a fresh
\* dwell), turned toward one plant, moved without touching the margin, and bit
\* another plant in the same tick.
C27_BitOffItsCourse ==
  \E j \in Creatures, t \in Plants :
    /\ creatures[j].state = "eat"
    /\ \E r \in ForageDraws.dwell :
         creatures[j].stateTimer = randomInRange(r, 6000, 12000)
    /\ creatures[j].type # "butterfly"
    /\ creatures[j].pos.x > PADDING
    /\ creatures[j].pos.x < width * 100 - PADDING
    /\ creatures[j].pos.y > PADDING
    /\ creatures[j].pos.y < height * 100 - PADDING
    /\ plants[t].size > 30000
    /\ creatures[j].vel # [x |-> 0, y |-> 0]
    /\ creatures[j].vel = toward(creatures[j], t)
    /\ ate[j] # 0
    /\ ate[j] # t
    /\ creatures[j].vel # toward(creatures[j], ate[j])

\* C28: a clear-weather particle is created at y = height + 5 with an upward
\* speed between 0.2 and 0.5 and is gone after the next tick, so the only one
\* world.particles ever holds is the last element, pushed in the tick just
\* taken under clear weather; every other particle is either the rain drop
\* pushed in the tick just taken or was kept by the prune, and those have
\* life > 0 and pos.y < height.
C28_PollenLastsOneTick ==
  [][updates' = updates + 1 =>
       \A n \in 1..Len(particles') :
         LET p == particles'[n]
             fresh == n = Len(particles') /\ p.life = p.maxLife
         IN /\ p.color = POLLEN_COLOR =>
                 /\ fresh
                 /\ weather = "clear"
                 /\ p.life = 300
                 /\ p.pos.y = height * 100 + 500
                 /\ p.vel.y >= -50
                 /\ p.vel.y <= -20
                 /\ (n > 1 => particles'[n - 1].color # POLLEN_COLOR)
            /\ ~fresh => (p.life > 0 /\ p.pos.y < height * 100)]_vars

\* Pollen pushed behind a rain drop that the prune has kept twice; the drop
\* fell while it rained, two ticks and a change of weather ago.
C28_PollenBehindKeptRain ==
  /\ Len(particles) >= 2
  /\ particles[Len(particles)].color = POLLEN_COLOR
  /\ particles[Len(particles)].life = 300
  /\ particles[1].color = RAIN_COLOR
  /\ particles[1].life = 198
  /\ weather = "clear"

\* C29: rainOverride starts as null, and while it is null the scene rains
\* exactly when world.weather is rain; a step that changes it takes null and
\* false to true and true to false; once it is not null it is never null
\* again, and the scene rains exactly when it is true, whatever the weather.
C29_OverrideNeverReturnsToAuto ==
  /\ rainOverride = "null"
  /\ [](\A w \in {weathers[n] : n \in DOMAIN weathers} :
          isRaining(rainOverride, w) =
            IF rainOverride = "null" THEN w = "rain" ELSE rainOverride = "true")
  /\ [][/\ rainOverride' # rainOverride =>
             rainOverride' = IF rainOverride = "true" THEN "false" ELSE "true"
        /\ rainOverride # "null" => rainOverride' # "null"]_vars

\* The button is on while the simulation's own weather, turned by
\* updateWeather, is not rain: the scene rains all the same.
C29_OverlayOnUnderAClearSky ==
  /\ rainOverride = "true"
  /\ weather # "rain"
  /\ updates > 1
  /\ isRaining(rainOverride, weather)
  /\ ~isRaining("null", weather)

\* The ticks left before creature c's next transition: its stateTimer rounded
\* up to whole ticks.
ticksLeft(c) == (c.stateTimer + 99) \div 100

\* C30: every creature's stateTimer is at most 300 after createWorld and
\* after every updateWorld, so it is at most 300 ticks from its next
\* transition; a tick either is that transition (the count was 1) or brings
\* it one tick closer: no creature goes 300 ticks without a transition.
C30_TransitionWithin300Ticks ==
  /\ [](\A i \in Creatures :
          /\ creatures[i].stateTimer <= 30000
          /\ ticksLeft(creatures[i]) \in 1..300)
  /\ [][updates' = updates + 1 =>
          \A i \in Creatures :
            IF ticksLeft(creatures[i]) = 1
            THEN \E m \in stateMachine(DwellDraws, variant, creatures[i], plants) :
                   /\ creatures'[i].state = m.state
                   /\ creatures'[i].stateTimer = m.stateTimer
                   /\ m.stateTimer >= 6000
            ELSE ticksLeft(creatures'[i]) = ticksLeft(creatures[i]) - 1]_vars

\* A wanderer on the last tick of the longest dwell there is (createCreature
\* gives 180 at most, long run out): 299 ticks ago it had 300 to go.
C30_LongestDwellRunsOut ==
  \E i \in Creatures :
    /\ updates > 299
    /\ creatures[i].state = "wander"
    /\ ticksLeft(creatures[i]) = 1
    /\ creatures[i].stateTimer = randomInRange(9999, 12000, 30000) - 299 * 100
====
